---------------------------- MODULE Spec2Model ----------------------------
(***************************************************************************)
(* Model of donkeycar/parts/remote_controller.py: the TCP receiver         *)
(* RemoteController and the UDP receiver RemoteControllerUDP.              *)
(*                                                                         *)
(* Each receiver object is used by two threads: the worker thread runs     *)
(* update(), the caller thread (the vehicle loop) calls run_threaded() and *)
(* shutdown().  The object's fields are plain attributes with no lock, so  *)
(* every attribute load and store is a step of its own and the two threads *)
(* interleave between any two of them.                                     *)
(*                                                                         *)
(* Time is counted in units of 0.25 s.  time.time() is modelled as a clock *)
(* that never runs backwards.  Floats are modelled by small integers.      *)
(***************************************************************************)
EXTENDS Integers, Sequences, FiniteSets, TLC

\* ------------------------------------------------------------- bounds
MaxTime == 3        \* the clock stops ticking here
MaxVal  == 1        \* payload numbers are 1..MaxVal (0.0 is the default)
MaxPeers == 2       \* peer sockets that can be open at the same time

\* ------------------------------------------------- program constants
Timeout == 2        \* self.timeout = 0.5 s, in units of 0.25 s

None    == 0        \* client_socket is None
Neutral == <<0, 0>> \* return 0.0, 0.0

\* ------------------------------------------------------ wire payloads
\* A JSON field value: absent, a number, a string spelling a number
\* ("1"), or a string that spells none ("abc").
Absent     == [k |-> "absent", v |-> 0]
Num(n)     == [k |-> "num",    v |-> n]
NumStr(n)  == [k |-> "numstr", v |-> n]
BadStr     == [k |-> "str",    v |-> 0]

Fields == {Absent, BadStr, NumStr(1)} \cup {Num(n) : n \in 1..MaxVal}

\* A received byte string, by what decoding makes of it.
\*   empty     b''            badutf8   not UTF-8
\*   badjson   not JSON       nonobject JSON, but no dict ([1], 3, "x")
\*   object    a JSON object with the given steering / throttle members
Bytes(e, s, t) == [enc |-> e, steering |-> s, throttle |-> t]
NoData   == Bytes("none", Absent, Absent)
Empty    == Bytes("empty", Absent, Absent)
Payloads == {Bytes(e, Absent, Absent) : e \in {"badutf8", "badjson", "nonobject"}}
            \cup {Bytes("object", s, t) : s \in Fields, t \in Fields}

\* json.loads(data.decode('utf-8')): the exception it raises, or "ok".
json_loads(d) ==
    CASE d.enc = "badutf8" -> "UnicodeDecodeError"
      [] d.enc \in {"badjson", "empty"} -> "JSONDecodeError"
      [] OTHER -> "ok"

\* cmd.get(key, 0.0): only a dict has .get; a missing key gives 0.0.
cmd_get(d, key) ==
    IF d.enc # "object" THEN [exc |-> "AttributeError", val |-> Absent]
    ELSE LET f == IF key = "steering" THEN d.steering ELSE d.throttle
         IN  [exc |-> "ok", val |-> IF f = Absent THEN Num(0) ELSE f]

\* Variant of float that turns a string spelling no number into 0.0.
float_lenient(f) ==
    IF f.k \in {"num", "numstr"} THEN [exc |-> "ok", val |-> f.v]
    ELSE [exc |-> "ok", val |-> 0]

\* float(x): a number or a string spelling one converts, "abc" raises.
float(f) ==
    IF f.k \in {"num", "numstr"} THEN [exc |-> "ok", val |-> f.v]
    ELSE [exc |-> "ValueError", val |-> 0]

\* float(cmd.get(key, 0.0)) as one expression.
float_get(d, key) ==
    LET g == cmd_get(d, key)
    IN  IF g.exc # "ok" THEN [exc |-> g.exc, val |-> 0] ELSE float(g.val)

\* The payload decodes into a command: lines 77-79 raise nothing.
Decodes(d) ==
    /\ json_loads(d) = "ok"
    /\ float_get(d, "steering").exc = "ok"
    /\ float_get(d, "throttle").exc = "ok"

\* Variant of Stale with the boundary on the wrong side.
Stale_ge(t, lct) == t - lct >= Timeout

\* The watchdog test of run_threaded.
Stale(t, lct) == t - lct > Timeout

\* -------------------------------------------------------------- state
VARIABLES
    variant,            \* "tcp": RemoteController, "udp": RemoteControllerUDP
    now,                \* time.time()
    running, steering, throttle, last_command_time,   \* the object's fields
    server_socket,      \* TCP listening socket: "open" | "closed" | "none"
    udp_socket,         \* UDP socket:           "open" | "closed" | "none"
    client_socket,      \* None or the accepted peer socket
    openPeers,          \* accepted peer sockets not closed yet
    wpc,                \* worker thread: the line it is at
    peer,               \* worker: what accept() returned, not stored yet
    data,               \* worker: the bytes being processed
    cpc,                \* caller thread: the line it is at
    shut,               \* shutdown(): "no" | "running" | "returned" | "raised"
    pollNow,            \* run_threaded: the time.time() it read (0 outside it)
    pollResult,         \* run_threaded: <<>>, <<s>> once self.steering is loaded,
                        \* <<s, t>> the pair it returns (at "ret")
    pollClean,          \* no field was written since that call began
    hist,               \* whether the history variable parsed is kept
    everParsed,         \* lines 77-80 (144-147) all completed for some command
    parsed,             \* (kept when hist) the (steering, throttle) of every
                        \* command for which lines 77-80 (144-147) completed
    lastReceipt,        \* time stamped by the latest such command
    twin                \* the shared command state of a RemoteControllerUDP fed
                        \* the same receive events (used by SpecPair only)

\* The shared command state of one receiver, as a value.
State(s, t, l) == [steering |-> s, throttle |-> t, last_command_time |-> l]

shared  == <<steering, throttle, last_command_time>>
socks   == <<server_socket, udp_socket, client_socket, openPeers>>
worker  == <<wpc, peer, data>>
caller  == <<cpc, shut, pollNow, pollResult>>
ghost   == <<hist, everParsed, parsed, lastReceipt, twin>>
vars    == <<variant, now, running, steering, throttle, last_command_time,
             server_socket, udp_socket, client_socket, openPeers,
             wpc, peer, data, cpc, shut, pollNow, pollResult, pollClean,
             hist, everParsed, parsed, lastReceipt, twin>>

\* RemoteController.__init__ / RemoteControllerUDP.__init__
InitState(h) ==
    /\ variant \in {"tcp", "udp"}
    /\ now = 0
    /\ running = TRUE
    /\ steering = 0
    /\ throttle = 0
    /\ last_command_time = 0
    /\ server_socket = IF variant = "tcp" THEN "open" ELSE "none"
    /\ udp_socket = IF variant = "udp" THEN "open" ELSE "none"
    /\ client_socket = None
    /\ openPeers = {}
    /\ wpc = IF variant = "tcp" THEN "l52" ELSE "u141"
    /\ peer = None
    /\ data = NoData
    /\ cpc = "idle"
    /\ shut = "no"
    /\ pollNow = 0
    /\ pollResult = <<>>
    /\ pollClean = TRUE
    /\ hist = h
    /\ everParsed = FALSE
    /\ parsed = {}
    /\ lastReceipt = 0
    /\ twin = State(0, 0, 0)

Init == InitState(FALSE)

\* The wall clock advances.
Tick ==
    /\ now < MaxTime
    /\ now' = now + 1
    /\ UNCHANGED <<variant, running, shared, socks, worker, caller, pollClean, ghost>>


\* A field is written: a run_threaded() in progress is no longer clean.
NoteWrite == pollClean' = (pollClean /\ cpc \notin {"l98", "l101", "l101t", "ret"})

\* ------------------------------------------------- exception handling
\* Variant of RC_except without the catch-all clause.
RC_except_nocatchall(exc) ==
    CASE exc = "socket.timeout" -> "l83"
      [] exc = "JSONDecodeError" -> "l85"
      [] exc \in {"ConnectionResetError", "BrokenPipeError"} -> "l87"
      [] OTHER -> "uncaught"

\* Variant of RC_except in which a reset is only logged, by the catch-all
\* clause.
RC_except_resetlogged(exc) ==
    CASE exc = "socket.timeout" -> "l83"
      [] exc = "JSONDecodeError" -> "l85"
      [] OTHER -> "l93"

\* Variant of RC_except in which the disconnect clause also catches the
\* ValueError of float().
RC_except_valuereset(exc) ==
    CASE exc = "socket.timeout" -> "l83"
      [] exc = "JSONDecodeError" -> "l85"
      [] exc \in {"ConnectionResetError", "BrokenPipeError", "ValueError"} -> "l87"
      [] OTHER -> "l93"

\* The except clause of RemoteController.update's receive block that
\* catches exception class exc (the first that matches, in source order).
RC_except(exc) ==
    CASE exc = "socket.timeout" -> "l83"
      [] exc = "JSONDecodeError" -> "l85"
      [] exc \in {"ConnectionResetError", "BrokenPipeError"} -> "l87"
      [] OTHER -> "l93"

\* The except clause of RemoteControllerUDP.update that catches exc.
UDP_except(exc) ==
    CASE exc = "socket.timeout" -> "u150"
      [] exc = "JSONDecodeError" -> "u152"
      [] OTHER -> "u154"

\* Where the worker continues after the except clause h: the pass and
\* warning clauses fall through to the loop test, the disconnect clause
\* and the catch-all clause of the receive block have a body (the
\* catch-all's logger.error is a step, so that a recv the clause swallowed
\* can be told from one that timed out), and an exception no clause
\* catches would end the thread.
AfterHandler(h) ==
    CASE h \in {"l83", "l85"} -> "l52"
      [] h = "l87" -> "l88"
      [] h = "l93" -> "l93"
      [] h \in {"u150", "u152", "u154"} -> "u141"
      [] OTHER -> "exited"

\* The worker's statement raises exc inside the try block.
Raise(exc) ==
    LET h == IF variant = "tcp" THEN RC_except(exc) ELSE UDP_except(exc)
    IN  /\ wpc' = AfterHandler(h)
        /\ data' = NoData

\* ------------------------------------- parsing a command (both classes)
\* cmd = json.loads(data.decode('utf-8'))
ParseLoads(at, nxt) ==
    /\ wpc = at
    /\ IF json_loads(data) = "ok"
       THEN /\ wpc' = nxt
            /\ UNCHANGED data
       ELSE Raise(json_loads(data))
    /\ UNCHANGED <<variant, now, running, shared, socks, peer, caller, pollClean,
                   ghost>>

\* Variant of StoreSteering that takes the receipt time before the throttle
\* is parsed.
StoreSteering_stamps(at, nxt) ==
    /\ wpc = at
    /\ LET r == float_get(data, "steering")
       IN  IF r.exc = "ok"
           THEN /\ steering' = r.val
                /\ last_command_time' = now
                /\ NoteWrite
                /\ wpc' = nxt
                /\ UNCHANGED data
           ELSE /\ Raise(r.exc)
                /\ UNCHANGED <<steering, last_command_time, pollClean>>
    /\ UNCHANGED <<variant, now, running, throttle, socks, peer, caller, ghost>>

\* self.steering = float(cmd.get('steering', 0.0))
StoreSteering(at, nxt) ==
    /\ wpc = at
    /\ LET r == float_get(data, "steering")
       IN  IF r.exc = "ok"
           THEN /\ steering' = r.val
                /\ NoteWrite
                /\ wpc' = nxt
                /\ UNCHANGED data
           ELSE /\ Raise(r.exc)
                /\ UNCHANGED <<steering, pollClean>>
    /\ UNCHANGED <<variant, now, running, throttle, last_command_time, socks, peer,
                   caller, ghost>>

\* Variant of StoreThrottle that keeps the stored throttle when the payload
\* has no throttle member.
StoreThrottle_keeps(at, nxt) ==
    /\ wpc = at
    /\ LET r == float_get(data, "throttle")
       IN  IF r.exc = "ok"
           THEN /\ throttle' = IF data.throttle = Absent THEN throttle ELSE r.val
                /\ NoteWrite
                /\ wpc' = nxt
                /\ UNCHANGED data
           ELSE /\ Raise(r.exc)
                /\ UNCHANGED <<throttle, pollClean>>
    /\ UNCHANGED <<variant, now, running, steering, last_command_time, socks, peer,
                   caller, ghost>>

\* self.throttle = float(cmd.get('throttle', 0.0))
StoreThrottle(at, nxt) ==
    /\ wpc = at
    /\ LET r == float_get(data, "throttle")
       IN  IF r.exc = "ok"
           THEN /\ throttle' = r.val
                /\ NoteWrite
                /\ wpc' = nxt
                /\ UNCHANGED data
           ELSE /\ Raise(r.exc)
                /\ UNCHANGED <<throttle, pollClean>>
    /\ UNCHANGED <<variant, now, running, steering, last_command_time, socks, peer,
                   caller, ghost>>

\* self.last_command_time = time.time(); the iteration ends.
StampTime(at, top) ==
    /\ wpc = at
    /\ last_command_time' = now
    /\ NoteWrite
    /\ wpc' = top
    /\ data' = NoData
    /\ everParsed' = TRUE
    /\ parsed' = IF hist THEN parsed \cup {<<float_get(data, "steering").val,
                                               float_get(data, "throttle").val>>}
                       ELSE parsed
    /\ lastReceipt' = now
    /\ UNCHANGED <<variant, now, running, steering, throttle, socks, peer, caller,
                   hist, twin>>

\* The socket object accept() returns: one that is not open already.
PeerIds == 1..MaxPeers
NewPeer == CHOOSE i \in PeerIds \ openPeers : \A j \in PeerIds \ openPeers : i <= j

\* ---------------------------------------------- RemoteController.update
\* Variant of RC_update_while that does not test the flag.
RC_update_while_noflag ==
    /\ variant = "tcp"
    /\ wpc = "l52"
    /\ wpc' = IF client_socket = None THEN "l56" ELSE "l67"
    /\ UNCHANGED <<variant, now, running, shared, socks, peer, data, caller,
                   pollClean, ghost>>

\* while self.running: / if self.client_socket is None:
RC_update_while ==
    /\ variant = "tcp"
    /\ wpc = "l52"
    /\ wpc' = IF ~running THEN "exited"
              ELSE IF client_socket = None THEN "l56" ELSE "l67"
    /\ UNCHANGED <<variant, now, running, shared, socks, peer, data, caller,
                   pollClean, ghost>>

\* self.server_socket.accept() returns a connection.
RC_update_accept ==
    /\ wpc = "l56"
    /\ server_socket = "open"
    /\ PeerIds \ openPeers # {}
    /\ peer' = NewPeer
    /\ openPeers' = openPeers \cup {NewPeer}
    /\ wpc' = "l56s"
    /\ UNCHANGED <<variant, now, running, shared, server_socket, udp_socket,
                   client_socket, data, caller, pollClean, ghost>>

\* self.client_socket, addr = <the result>; self.client_socket.settimeout(0.1)
RC_update_accept_store ==
    /\ wpc = "l56s"
    /\ client_socket' = peer
    /\ peer' = None
    /\ wpc' = "l67"
    /\ UNCHANGED <<variant, now, running, shared, server_socket, udp_socket,
                   openPeers, data, caller, pollClean, ghost>>

\* except socket.timeout: continue
RC_update_accept_timeout ==
    /\ wpc = "l56"
    /\ wpc' = "l52"
    /\ UNCHANGED <<variant, now, running, shared, socks, peer, data, caller,
                   pollClean, ghost>>

\* except Exception as e: logger.error(...); continue
\* (any OSError of accept, among them the one a closed listening socket gives)
RC_update_accept_error ==
    /\ wpc = "l56"
    /\ wpc' = "l52"
    /\ UNCHANGED <<variant, now, running, shared, socks, peer, data, caller,
                   pollClean, ghost>>

\* data = self.client_socket.recv(1024) returns a non-empty chunk.
RC_update_recv_data ==
    /\ wpc = "l67"
    /\ client_socket \in openPeers
    /\ \E p \in Payloads : data' = p
    /\ wpc' = "l77"
    /\ UNCHANGED <<variant, now, running, shared, socks, peer, caller, pollClean,
                   ghost>>

\* recv returns b'' (the peer closed): if not data:
RC_update_recv_closed ==
    /\ wpc = "l67"
    /\ client_socket \in openPeers
    /\ data' = Empty
    /\ wpc' = "l70"
    /\ UNCHANGED <<variant, now, running, shared, socks, peer, caller, pollClean,
                   ghost>>

\* Variant of RC_update_recv_timeout that counts a timeout as a receipt.
RC_update_recv_timeout_stamps ==
    /\ wpc = "l67"
    /\ Raise("socket.timeout")
    /\ last_command_time' = now
    /\ UNCHANGED <<variant, now, running, steering, throttle, socks, peer, caller,
                   pollClean, ghost>>

\* recv raises socket.timeout.
RC_update_recv_timeout ==
    /\ wpc = "l67"
    /\ Raise("socket.timeout")
    /\ UNCHANGED <<variant, now, running, shared, socks, peer, caller, pollClean,
                   ghost>>

\* recv raises ConnectionResetError or BrokenPipeError.
RC_update_recv_reset ==
    /\ wpc = "l67"
    /\ client_socket \in openPeers
    /\ \E exc \in {"ConnectionResetError", "BrokenPipeError"} : Raise(exc)
    /\ UNCHANGED <<variant, now, running, shared, socks, peer, caller, pollClean,
                   ghost>>

\* recv raises another OSError (among them the one a socket closed by
\* shutdown() gives).
RC_update_recv_error ==
    /\ wpc = "l67"
    /\ Raise("OSError")
    /\ UNCHANGED <<variant, now, running, shared, socks, peer, caller, pollClean,
                   ghost>>

\* Variant of ClosePeer that drops the handle without closing the socket.
ClosePeer_noclose(at, nxt) ==
    /\ wpc = at
    /\ client_socket' = None
    /\ wpc' = nxt
    /\ UNCHANGED <<variant, now, running, shared, server_socket, udp_socket,
                   openPeers, peer, data, caller, pollClean, ghost>>

\* self.client_socket.close(); self.client_socket = None
ClosePeer(at, nxt) ==
    /\ wpc = at
    /\ openPeers' = openPeers \ {client_socket}
    /\ client_socket' = None
    /\ wpc' = nxt
    /\ UNCHANGED <<variant, now, running, shared, server_socket, udp_socket,
                   peer, data, caller, pollClean, ghost>>

\* Variant of ZeroSteering that leaves the steering as it is.
ZeroSteering_skip(at, nxt) ==
    /\ wpc = at
    /\ wpc' = nxt
    /\ UNCHANGED <<variant, now, running, shared, socks, peer, data, caller,
                   pollClean, ghost>>

\* self.steering = 0.0
ZeroSteering(at, nxt) ==
    /\ wpc = at
    /\ steering' = 0
    /\ NoteWrite
    /\ wpc' = nxt
    /\ UNCHANGED <<variant, now, running, throttle, last_command_time, socks,
                   peer, data, caller, ghost>>

\* self.throttle = 0.0; the iteration ends.
ZeroThrottle(at, nxt) ==
    /\ wpc = at
    /\ throttle' = 0
    /\ NoteWrite
    /\ wpc' = nxt
    /\ data' = NoData
    /\ UNCHANGED <<variant, now, running, steering, last_command_time, socks,
                   peer, caller, ghost>>

\* lines 69-74: the zero-length read.
RC_update_closed_close    == ClosePeer("l70", "l72")
RC_update_closed_steering == ZeroSteering("l72", "l73")
RC_update_closed_throttle == ZeroThrottle("l73", "l52")

\* lines 77-80: the command.
RC_update_loads    == ParseLoads("l77", "l78")
RC_update_steering == StoreSteering("l78", "l79")
RC_update_throttle == StoreThrottle("l79", "l80")
RC_update_time     == StampTime("l80", "l52")

\* lines 86-91: except (ConnectionResetError, BrokenPipeError).
RC_update_reset_close    == ClosePeer("l88", "l90")
RC_update_reset_steering == ZeroSteering("l90", "l91")
RC_update_reset_throttle == ZeroThrottle("l91", "l52")

\* line 93: except Exception as e: logger.error(...); the handle is kept
\* and the iteration ends.
RC_update_error_log ==
    /\ wpc = "l93"
    /\ wpc' = "l52"
    /\ UNCHANGED <<variant, now, running, shared, socks, peer, data, caller,
                   pollClean, ghost>>

\* ------------------------------------------- RemoteControllerUDP.update
\* while self.running:
UDP_update_while ==
    /\ variant = "udp"
    /\ wpc = "u141"
    /\ wpc' = IF ~running THEN "exited" ELSE "u143"
    /\ UNCHANGED <<variant, now, running, shared, socks, peer, data, caller,
                   pollClean, ghost>>

\* data, addr = self.socket.recvfrom(1024) returns a datagram (which may
\* be empty).
UDP_update_recvfrom_data ==
    /\ wpc = "u143"
    /\ udp_socket = "open"
    /\ \E p \in Payloads \cup {Empty} : data' = p
    /\ wpc' = "u144"
    /\ UNCHANGED <<variant, now, running, shared, socks, peer, caller, pollClean,
                   ghost>>

\* Variant of UDP_update_recvfrom_timeout that zeroes the command.
UDP_update_recvfrom_timeout_zeroes ==
    /\ wpc = "u143"
    /\ Raise("socket.timeout")
    /\ steering' = 0
    /\ throttle' = 0
    /\ UNCHANGED <<variant, now, running, last_command_time, socks, peer, caller,
                   pollClean, ghost>>

\* recvfrom raises socket.timeout.
UDP_update_recvfrom_timeout ==
    /\ wpc = "u143"
    /\ Raise("socket.timeout")
    /\ UNCHANGED <<variant, now, running, shared, socks, peer, caller, pollClean,
                   ghost>>

\* recvfrom raises another OSError (among them the one a socket closed by
\* shutdown() gives).
UDP_update_recvfrom_error ==
    /\ wpc = "u143"
    /\ Raise("OSError")
    /\ UNCHANGED <<variant, now, running, shared, socks, peer, caller, pollClean,
                   ghost>>

\* lines 144-147: the command.
UDP_update_loads    == ParseLoads("u144", "u145")
UDP_update_steering == StoreSteering("u145", "u146")
UDP_update_throttle == StoreThrottle("u146", "u147")
UDP_update_time     == StampTime("u147", "u141")

\* ------------------------------------- run_threaded / run (both classes)
\* The caller enters run_threaded() (or run(), which only calls it).
run_threaded_call ==
    /\ cpc = "idle"
    /\ cpc' = "l98"
    /\ pollClean' = TRUE
    /\ UNCHANGED <<variant, now, running, shared, socks, worker, shut, pollNow,
                   pollResult, ghost>>

\* Variant of run_threaded_check that also zeroes the stored command when
\* it finds it stale.
run_threaded_check_clears ==
    /\ cpc = "l98"
    /\ pollNow' = now
    /\ IF Stale(now, last_command_time)
       THEN /\ pollResult' = Neutral
            /\ cpc' = "ret"
            /\ steering' = 0
            /\ throttle' = 0
       ELSE /\ pollResult' = <<>>
            /\ cpc' = "l101"
            /\ UNCHANGED <<steering, throttle>>
    /\ UNCHANGED <<variant, now, running, last_command_time, socks, worker, shut,
                   pollClean, ghost>>

\* if time.time() - self.last_command_time > self.timeout: return 0.0, 0.0
run_threaded_check ==
    /\ cpc = "l98"
    /\ pollNow' = now
    /\ IF Stale(now, last_command_time)
       THEN /\ pollResult' = Neutral
            /\ cpc' = "ret"
       ELSE /\ pollResult' = <<>>
            /\ cpc' = "l101"
    /\ UNCHANGED <<variant, now, running, shared, socks, worker, shut, pollClean, ghost>>

\* return self.steering, self.throttle: the load of self.steering
run_threaded_steering ==
    /\ cpc = "l101"
    /\ pollResult' = <<steering>>
    /\ cpc' = "l101t"
    /\ UNCHANGED <<variant, now, running, shared, socks, worker, shut, pollNow,
                   pollClean, ghost>>

\* return self.steering, self.throttle: the load of self.throttle; the
\* pair is returned.
run_threaded_throttle ==
    /\ cpc = "l101t"
    /\ pollResult' = <<pollResult[1], throttle>>
    /\ cpc' = "ret"
    /\ UNCHANGED <<variant, now, running, shared, socks, worker, shut, pollNow,
                   pollClean, ghost>>

\* The caller has the returned pair (cpc = "ret") and goes on.
run_threaded_return ==
    /\ cpc = "ret"
    /\ cpc' = "idle"
    /\ pollNow' = 0
    /\ pollResult' = <<>>
    /\ pollClean' = TRUE
    /\ UNCHANGED <<variant, now, running, shared, socks, worker, shut, ghost>>

\* ------------------------------------------------------------- shutdown
\* self.running = False (shutdown() is called once)
shutdown_running ==
    /\ cpc = "idle"
    /\ shut = "no"
    /\ running' = FALSE
    /\ shut' = "running"
    /\ cpc' = "s_steering"
    /\ UNCHANGED <<variant, now, shared, socks, worker, pollNow, pollResult,
                   pollClean, ghost>>

\* self.steering = 0.0
shutdown_steering ==
    /\ cpc = "s_steering"
    /\ steering' = 0
    /\ NoteWrite
    /\ cpc' = "s_throttle"
    /\ UNCHANGED <<variant, now, running, throttle, last_command_time, socks,
                   worker, shut, pollNow, pollResult, ghost>>

\* self.throttle = 0.0
shutdown_throttle ==
    /\ cpc = "s_throttle"
    /\ throttle' = 0
    /\ NoteWrite
    /\ cpc' = IF variant = "tcp" THEN "l114" ELSE "u169"
    /\ UNCHANGED <<variant, now, running, steering, last_command_time, socks,
                   worker, shut, pollNow, pollResult, ghost>>

\* RemoteController.shutdown: if self.client_socket:
RC_shutdown_if ==
    /\ cpc = "l114"
    /\ cpc' = IF client_socket # None THEN "l115" ELSE "l116"
    /\ UNCHANGED <<variant, now, running, shared, socks, worker, shut, pollNow, pollResult,
                   pollClean, ghost>>

\* self.client_socket.close(): the attribute is loaded again; on None the
\* call raises AttributeError and shutdown() ends there.
RC_shutdown_close_client ==
    /\ cpc = "l115"
    /\ IF client_socket = None
       THEN /\ cpc' = "idle"
            /\ shut' = "raised"
            /\ UNCHANGED openPeers
       ELSE /\ openPeers' = openPeers \ {client_socket}
            /\ cpc' = "l116"
            /\ UNCHANGED shut
    /\ UNCHANGED <<variant, now, running, shared, server_socket, udp_socket,
                   client_socket, worker, pollNow, pollResult,
                   pollClean, ghost>>

\* self.server_socket.close(); shutdown() returns.
RC_shutdown_close_server ==
    /\ cpc = "l116"
    /\ server_socket' = "closed"
    /\ cpc' = "idle"
    /\ shut' = "returned"
    /\ UNCHANGED <<variant, now, running, shared, udp_socket, client_socket,
                   openPeers, worker, pollNow, pollResult, pollClean,
                   ghost>>

\* RemoteControllerUDP.shutdown: self.socket.close(); shutdown() returns.
UDP_shutdown_close ==
    /\ cpc = "u169"
    /\ udp_socket' = "closed"
    /\ cpc' = "idle"
    /\ shut' = "returned"
    /\ UNCHANGED <<variant, now, running, shared, server_socket, client_socket,
                   openPeers, worker, pollNow, pollResult, pollClean,
                   ghost>>

\* -------------------------------------------------------- specification
Next ==
    \/ Tick
    \/ RC_update_while
    \/ RC_update_accept
    \/ RC_update_accept_store
    \/ RC_update_accept_timeout
    \/ RC_update_accept_error
    \/ RC_update_recv_data
    \/ RC_update_recv_closed
    \/ RC_update_recv_timeout
    \/ RC_update_recv_reset
    \/ RC_update_recv_error
    \/ RC_update_closed_close
    \/ RC_update_closed_steering
    \/ RC_update_closed_throttle
    \/ RC_update_loads
    \/ RC_update_steering
    \/ RC_update_throttle
    \/ RC_update_time
    \/ RC_update_reset_close
    \/ RC_update_reset_steering
    \/ RC_update_reset_throttle
    \/ RC_update_error_log
    \/ UDP_update_while
    \/ UDP_update_recvfrom_data
    \/ UDP_update_recvfrom_timeout
    \/ UDP_update_recvfrom_error
    \/ UDP_update_loads
    \/ UDP_update_steering
    \/ UDP_update_throttle
    \/ UDP_update_time
    \/ run_threaded_call
    \/ run_threaded_check
    \/ run_threaded_steering
    \/ run_threaded_throttle
    \/ run_threaded_return
    \/ shutdown_running
    \/ shutdown_steering
    \/ shutdown_throttle
    \/ RC_shutdown_if
    \/ RC_shutdown_close_client
    \/ RC_shutdown_close_server
    \/ UDP_shutdown_close

Spec == Init /\ [][Next]_vars

\* The same program, with the history of parsed commands kept.
InitHist == InitState(TRUE)
SpecHist == InitHist /\ [][Next]_vars

\* The worker thread's steps.
WorkerNext ==
    \/ RC_update_while
    \/ RC_update_accept
    \/ RC_update_accept_store
    \/ RC_update_accept_timeout
    \/ RC_update_accept_error
    \/ RC_update_recv_data
    \/ RC_update_recv_closed
    \/ RC_update_recv_timeout
    \/ RC_update_recv_reset
    \/ RC_update_recv_error
    \/ RC_update_closed_close
    \/ RC_update_closed_steering
    \/ RC_update_closed_throttle
    \/ RC_update_loads
    \/ RC_update_steering
    \/ RC_update_throttle
    \/ RC_update_time
    \/ RC_update_reset_close
    \/ RC_update_reset_steering
    \/ RC_update_reset_throttle
    \/ RC_update_error_log
    \/ UDP_update_while
    \/ UDP_update_recvfrom_data
    \/ UDP_update_recvfrom_timeout
    \/ UDP_update_recvfrom_error
    \/ UDP_update_loads
    \/ UDP_update_steering
    \/ UDP_update_throttle
    \/ UDP_update_time

\* The same program with the worker thread scheduled fairly: the thread
\* is a started thread of the interpreter, and accept, recv and recvfrom
\* carry timeouts (1.0 s, 0.1 s, 0.1 s), so the worker always takes its
\* next step in the end.  Nothing is assumed of the caller or of the peer.
SpecFair == Init /\ [][Next]_vars /\ WF_vars(WorkerNext)

\* ------------------------------------------ the two receivers side by side
\* The body of the except clause h of RemoteController.update, entered
\* with the command state st: only the disconnect clause (lines 88-91)
\* writes it.
RC_handler(h, st) ==
    IF h = "l87" THEN [st EXCEPT !.steering = 0, !.throttle = 0] ELSE st

\* The body of the except clause h of RemoteControllerUDP.update: pass or
\* a log call.
UDP_handler(h, st) == st

\* Lines 77-80 (144-147) run without interruption on payload d at time t,
\* from command state st: the exception raised ("ok" if none) and the
\* command state when the block is left.
ParseCommand(st, d, t) ==
    LET s   == float_get(d, "steering")
        th  == float_get(d, "throttle")
        st1 == [st EXCEPT !.steering = s.val]
        st2 == [st1 EXCEPT !.throttle = th.val]
    IN  IF json_loads(d) # "ok" THEN [exc |-> json_loads(d), st |-> st]
        ELSE IF s.exc # "ok" THEN [exc |-> s.exc, st |-> st]
        ELSE IF th.exc # "ok" THEN [exc |-> th.exc, st |-> st1]
        ELSE [exc |-> "ok", st |-> [st2 EXCEPT !.last_command_time = t]]

\* One iteration of RemoteController.update in the Connected state whose
\* recv returns payload d, or raises socket.timeout (d = NoData).
RC_update_iteration(st, d, t) ==
    LET r == IF d = NoData THEN [exc |-> "socket.timeout", st |-> st]
             ELSE ParseCommand(st, d, t)
    IN  IF r.exc = "ok" THEN r.st ELSE RC_handler(RC_except(r.exc), r.st)

\* One iteration of RemoteControllerUDP.update whose recvfrom returns
\* payload d, or raises socket.timeout (d = NoData).
UDP_update_iteration(st, d, t) ==
    LET r == IF d = NoData THEN [exc |-> "socket.timeout", st |-> st]
             ELSE ParseCommand(st, d, t)
    IN  IF r.exc = "ok" THEN r.st ELSE UDP_handler(UDP_except(r.exc), r.st)

\* What run_threaded() returns at time t with the command state st.
run_threaded_value(st, t) ==
    IF Stale(t, st.last_command_time) THEN Neutral
    ELSE <<st.steering, st.throttle>>

\* A RemoteController with a connected peer, and a RemoteControllerUDP
\* (twin) constructed at the same time.
InitPair ==
    /\ variant = "tcp"
    /\ now = 0
    /\ running = TRUE
    /\ steering = 0
    /\ throttle = 0
    /\ last_command_time = 0
    /\ server_socket = "open"
    /\ udp_socket = "open"
    /\ client_socket = 1
    /\ openPeers = {1}
    /\ wpc = "l67"
    /\ peer = None
    /\ data = NoData
    /\ cpc = "idle"
    /\ shut = "no"
    /\ pollNow = 0
    /\ pollResult = <<>>
    /\ pollClean = TRUE
    /\ hist = FALSE
    /\ everParsed = FALSE
    /\ parsed = {}
    /\ lastReceipt = 0
    /\ twin = State(0, 0, 0)

\* Both receivers get the same receive event: a payload.
Pair_receive_payload ==
    /\ \E d \in Payloads :
         /\ data' = d
         /\ LET r == RC_update_iteration(
                         State(steering, throttle, last_command_time), d, now)
            IN  /\ steering' = r.steering
                /\ throttle' = r.throttle
                /\ last_command_time' = r.last_command_time
         /\ twin' = UDP_update_iteration(twin, d, now)
    /\ UNCHANGED <<variant, now, running, socks, wpc, peer, caller, pollClean,
                   hist, everParsed, parsed, lastReceipt>>

\* Both receivers get the same receive event: a timeout.
Pair_receive_timeout ==
    /\ data' = NoData
    /\ LET r == RC_update_iteration(
                    State(steering, throttle, last_command_time), NoData, now)
       IN  /\ steering' = r.steering
           /\ throttle' = r.throttle
           /\ last_command_time' = r.last_command_time
    /\ twin' = UDP_update_iteration(twin, NoData, now)
    /\ UNCHANGED <<variant, now, running, socks, wpc, peer, caller, pollClean,
                   hist, everParsed, parsed, lastReceipt>>

NextPair ==
    \/ Tick
    \/ Pair_receive_payload
    \/ Pair_receive_timeout

SpecPair == InitPair /\ [][NextPair]_vars


\* ================================================================ claims
\* Lines at which the worker is parsing a received payload.
ParseLines == {"l77", "l78", "l79", "l80", "u144", "u145", "u146", "u147"}
StampLines == {"l80", "u147"}
ZeroLines  == {"l72", "l73", "l90", "l91"}
\* A step of the worker thread.
WorkerStep == wpc' # wpc
\* run_threaded() has returned pollResult.
Returned == cpc = "ret"

\* C1. Watchdog result: a run_threaded() that read the clock at pollNow and
\* during which no field was written returns the stored (steering,
\* throttle) when pollNow - last_command_time <= timeout (the boundary
\* included) and (0.0, 0.0) when it is greater.
C1_WatchdogResult ==
    (Returned /\ pollClean) =>
        /\ pollNow - last_command_time <= Timeout => pollResult = <<steering, throttle>>
        /\ pollNow - last_command_time > Timeout => pollResult = <<0, 0>>

\* C1 witness: a poll exactly at the boundary returned a stored command
\* that is not neutral.
C1_Witness ==
    /\ Returned /\ pollClean
    /\ pollNow - last_command_time = Timeout
    /\ pollResult = <<steering, throttle>>
    /\ pollResult # <<0, 0>>

\* C2. Parse-failure isolation: no step the worker takes while processing
\* a payload that does not decode into a command changes steering,
\* throttle or last_command_time.
C2_ParseFailureIsolation ==
    [][(WorkerStep /\ wpc \in ParseLines /\ ~Decodes(data))
         => UNCHANGED <<steering, throttle, last_command_time>>]_vars

\* C3. No torn read: the pair run_threaded() returns is the neutral pair or
\* the complete (steering, throttle) of one successfully parsed command.
\* (The claim's second half, about the receipt time the pair is judged
\* against, only strengthens this.)
C3_NoTornRead ==
    Returned => (pollResult = <<0, 0>> \/ pollResult \in parsed)

\* C4. Stale commands degrade to stop: when run_threaded() makes its test
\* more than timeout after the receipt of the last successfully parsed
\* command, it returns (0.0, 0.0), whatever the worker has processed since.
C4_StaleDegradesToStop ==
    [][(cpc = "l98" /\ cpc' # "l98" /\ everParsed /\ now - lastReceipt > Timeout)
         => (cpc' = "ret" /\ pollResult' = <<0, 0>>)]_vars

\* C4 witness: a poll made after the last command went stale returned
\* neutral although the stored steering is not neutral.
C4_Witness ==
    /\ Returned
    /\ everParsed
    /\ pollNow - lastReceipt > Timeout
    /\ steering # 0
    /\ pollResult = <<0, 0>>

\* C5. TCP disconnect invariant: once the worker has finished handling a
\* zero-length read or a reset (the handle is None again and the zeroing
\* lines are done), a run_threaded() during which nothing was written
\* returns (0.0, 0.0), whatever the age of last_command_time.
C5_DisconnectNeutral ==
    (variant = "tcp" /\ Returned /\ pollClean /\ client_socket = None
                     /\ wpc \notin ZeroLines)
        => pollResult = <<0, 0>>

\* C5 witness: a command was parsed, the peer is gone, the receipt time is
\* still within the timeout, and the poll returned neutral.
C5_Witness ==
    /\ variant = "tcp" /\ Returned /\ pollClean
    /\ everParsed
    /\ client_socket = None /\ wpc = "l56"
    /\ pollNow - last_command_time <= Timeout
    /\ shut = "no"
    /\ pollResult = <<0, 0>>

\* C6. Default neutral: while no command has been successfully parsed,
\* run_threaded() returns (0.0, 0.0).
C6_DefaultNeutral ==
    (Returned /\ ~everParsed) => pollResult = <<0, 0>>

\* C7. Single-peer invariant: the worker is in accept() only while
\* client_socket is None and no accepted socket is open, and at most one
\* accepted socket is open at any time.
C7_SinglePeer ==
    /\ Cardinality(openPeers) <= 1
    /\ wpc = "l56" => (client_socket = None /\ openPeers = {})
    /\ wpc = "l56s" => (client_socket = None /\ openPeers = {peer})
    /\ client_socket # None => openPeers \subseteq {client_socket}

\* C7 witness: a second connection was accepted (a command of an earlier
\* peer had been parsed) and it is the only open one.
C7_Witness ==
    /\ wpc = "l56s"
    /\ everParsed
    /\ openPeers = {peer}

\* C8. Shutdown invariant: when shutdown() has returned, the worker loop
\* has exited and no socket is open.
C8_ShutdownInvariant ==
    shut = "returned" =>
        /\ wpc = "exited"
        /\ openPeers = {}
        /\ server_socket # "open"
        /\ udp_socket # "open"

\* C9. The worker never dies on its own: the loop is left only at the
\* while test, and only with running false.
C9_WorkerNeverDies ==
    [][(wpc # "exited" /\ wpc' = "exited") => (wpc \in {"l52", "u141"} /\ ~running)]_vars

\* C9 witness: an iteration ended in an exception (a steering was stored
\* but the command never completed) and the loop is back at its test,
\* still running.
C9_Witness ==
    /\ running
    /\ wpc \in {"l52", "u141"}
    /\ steering # 0
    /\ ~everParsed

\* C10. Receipt-time invariant: last_command_time never decreases; it
\* changes only in the step that completes a successfully parsed command,
\* which sets it to the current time; every decodable payload reaches that
\* step and no other payload does.
C10_ReceiptTime ==
    [][/\ last_command_time' >= last_command_time
       /\ last_command_time' # last_command_time
            => (WorkerStep /\ wpc \in StampLines /\ Decodes(data))
       /\ (WorkerStep /\ wpc \in StampLines)
            => (Decodes(data) /\ last_command_time' = now)
       /\ (WorkerStep /\ wpc \in ParseLines \ StampLines)
            => IF Decodes(data) THEN wpc' \in ParseLines
                                ELSE wpc' \notin StampLines]_vars

\* C10 witness: a command was stamped at a time later than construction.
C10_Witness ==
    /\ everParsed
    /\ last_command_time > 0
    /\ last_command_time = lastReceipt

\* The payload {"steering": "abc"}, with any throttle member or none.
InvalidSteering(d) == d.enc = "object" /\ d.steering = BadStr

\* C11. Invalid steering example: no step the worker takes while
\* processing a payload whose steering member is a non-numeric string
\* changes steering, throttle or last_command_time, and the payload never
\* gets past the line that converts the steering.
C11_InvalidSteeringKeeps ==
    [][(WorkerStep /\ wpc \in ParseLines /\ InvalidSteering(data))
         => /\ UNCHANGED <<steering, throttle, last_command_time>>
            /\ wpc \in {"l77", "l78", "u144", "u145"}
            /\ wpc' \in {"l78", "u145", "l93", "u141"}]_vars

\* C11 witness: with a parsed command stored (not neutral, stamped after
\* construction), the worker is converting the steering of
\* {"steering": "abc"}.
C11_Witness ==
    /\ wpc \in {"l78", "u145"}
    /\ data = Bytes("object", BadStr, Absent)
    /\ everParsed
    /\ steering # 0 /\ throttle # 0
    /\ last_command_time > 0

\* C12. Missing fields default to neutral: a well-formed payload that
\* omits steering or throttle decodes into a command; the store of an
\* omitted field stores 0.0 whatever the field held, and the command's
\* last step sets last_command_time to the current time.
C12_MissingFieldsNeutral ==
    [][/\ (WorkerStep /\ wpc \in {"l78", "u145"} /\ data.enc = "object"
            /\ data.steering = Absent)
          => (steering' = 0 /\ wpc' \in {"l79", "u146"})
       /\ (WorkerStep /\ wpc \in {"l79", "u146"} /\ data.throttle = Absent)
          => (throttle' = 0 /\ wpc' \in StampLines)
       /\ (WorkerStep /\ wpc \in StampLines)
          => (last_command_time' = now /\ everParsed')]_vars

\* C12 witness: after an earlier command was parsed, a command that gave
\* only a throttle is about to be stamped with a later time: the throttle
\* is stored and the steering is 0.0.
C12_Witness ==
    /\ wpc \in StampLines
    /\ data = Bytes("object", Absent, Num(1))
    /\ everParsed
    /\ steering = 0 /\ throttle = 1
    /\ now > last_command_time /\ last_command_time > 0

\* C13. Shutdown eventually stops the worker: once running is false, the
\* fairly scheduled worker leaves its loop, whatever line it is at and
\* whatever state its sockets are in.
C13_ShutdownStopsWorker == (~running) ~> (wpc = "exited")

\* C13 witness: the worker has exited while holding a peer socket that
\* shutdown() closed under it, after a command had been parsed.
C13_Witness ==
    /\ wpc = "exited"
    /\ shut = "returned"
    /\ client_socket # None /\ client_socket \notin openPeers
    /\ server_socket = "closed"
    /\ everParsed

\* The lines of the zero-length-read branch and of the reset clause.
ClosedLines == {"l70", "l72", "l73"}
ResetLines  == {"l88", "l90", "l91"}

\* C14. Reset is handled like clean close: a ConnectionResetError or
\* BrokenPipeError of recv enters the reset clause, and that clause and
\* the zero-length-read branch do the same, step for step: close the peer
\* socket and set client_socket to None, set steering to 0.0, set throttle
\* to 0.0 and end the iteration, with last_command_time untouched; at the
\* end no accepted socket is open, and the loop test that follows goes to
\* accept when running is true.
C14_ResetLikeClose ==
    [][/\ (WorkerStep /\ wpc = "l67" /\ wpc' \in ClosedLines) => wpc' = "l70"
       /\ (WorkerStep /\ wpc = "l67" /\ wpc' \in ResetLines) => wpc' = "l88"
       /\ RC_update_recv_reset => wpc' = "l88"
       /\ (WorkerStep /\ wpc \in {"l70", "l88"})
            => /\ client_socket' = None
               /\ client_socket \notin openPeers'
               /\ wpc' = (IF wpc = "l70" THEN "l72" ELSE "l90")
               /\ UNCHANGED <<steering, throttle, last_command_time>>
       /\ (WorkerStep /\ wpc \in {"l72", "l90"})
            => /\ steering' = 0
               /\ wpc' = (IF wpc = "l72" THEN "l73" ELSE "l91")
               /\ UNCHANGED <<client_socket, openPeers, throttle, last_command_time>>
       /\ (WorkerStep /\ wpc \in {"l73", "l91"})
            => /\ throttle' = 0
               /\ steering' = 0
               /\ client_socket' = None /\ openPeers' = {}
               /\ wpc' = "l52"
               /\ UNCHANGED last_command_time
       /\ (WorkerStep /\ wpc = "l52" /\ running /\ client_socket = None)
            => wpc' = "l56"]_vars

\* C14 witness: the reset clause has closed the peer and zeroed the
\* steering of a parsed command; the throttle is still to be zeroed and
\* the receipt time is the command's.
C14_Witness ==
    /\ wpc = "l91"
    /\ everParsed
    /\ client_socket = None /\ openPeers = {}
    /\ steering = 0 /\ throttle # 0
    /\ last_command_time > 0 /\ last_command_time = lastReceipt

\* C15. Unusable peer socket falls back to Accepting: if from some point
\* on every recv the worker makes fails with an error of the catch-all
\* class (not a timeout, a reset or a broken pipe), the worker does not
\* stay connected for ever: again and again it is without a peer handle
\* (or has left the loop).
C15_UnusableFallsBack ==
    (<>[][wpc = "l67" => wpc' = "l93"]_wpc)
        => []<>(client_socket = None \/ wpc = "exited")

\* C16. Timeouts are no-ops: a recvfrom timeout of the UDP worker, a recv
\* timeout of the connected TCP worker and an accept timeout of the TCP
\* worker leave steering, throttle, last_command_time and the connection
\* (client_socket and the open peer socket) as they are, and end the
\* iteration.
C16_TimeoutsAreNoOps ==
    [][(\/ UDP_update_recvfrom_timeout
        \/ RC_update_recv_timeout
        \/ RC_update_accept_timeout)
         => /\ UNCHANGED <<steering, throttle, last_command_time,
                           client_socket, openPeers>>
            /\ wpc' \in {"l52", "u141"}]_vars

\* C16 witness: the worker is back at its loop test with a live peer (or
\* the UDP socket) and a parsed command that went stale while no payload
\* came: the command and its receipt time are still stored.
C16_Witness ==
    /\ wpc \in {"l52", "u141"}
    /\ running
    /\ variant = "tcp" => client_socket \in openPeers
    /\ everParsed
    /\ steering # 0 /\ throttle # 0
    /\ last_command_time = lastReceipt
    /\ now - last_command_time > Timeout

\* C17. Sole writer: no step of the caller thread (run_threaded, run,
\* shutdown) changes steering, throttle or last_command_time.
C17_SoleWriter ==
    [][(cpc' # cpc) => UNCHANGED <<steering, throttle, last_command_time>>]_vars

\* The lines of run_threaded, and its steps.
PollLines == {"l98", "l101", "l101t"}
PollStep ==
    \/ run_threaded_call
    \/ run_threaded_check
    \/ run_threaded_steering
    \/ run_threaded_throttle
    \/ run_threaded_return

\* C18. Poll is read-only and non-blocking: every line of run_threaded can
\* be executed whatever the worker and the sockets are doing, the call
\* reaches its return in at most three steps of the caller alone, and no
\* step of it changes steering, throttle, last_command_time, running or a
\* socket handle, the stale branch included.
C18_PollReadOnly ==
    /\ [](cpc \in PollLines
            => ENABLED (run_threaded_check \/ run_threaded_steering
                          \/ run_threaded_throttle))
    /\ [][PollStep
            => /\ UNCHANGED <<steering, throttle, last_command_time, running,
                              server_socket, udp_socket, client_socket, openPeers,
                              wpc, shut>>
               /\ cpc = "l98" => cpc' \in {"l101", "ret"}
               /\ cpc = "l101" => cpc' = "l101t"
               /\ cpc = "l101t" => cpc' = "ret"
               /\ (cpc = "l98" /\ now - last_command_time > Timeout)
                    => (cpc' = "ret" /\ pollResult' = <<0, 0>>)]_vars

\* C18 witness: a poll returned neutral for a stale command while the
\* worker sits in a socket call; the stored command is still there.
C18_Witness ==
    /\ Returned /\ pollClean
    /\ pollResult = <<0, 0>>
    /\ steering # 0 /\ throttle # 0
    /\ running
    /\ wpc \in {"l56", "l67", "u143"}

\* C19. The two receivers are interchangeable on the data path: fed the
\* same payloads and timeouts at the same times, the connected
\* RemoteController and the RemoteControllerUDP hold the same steering,
\* throttle and last_command_time, and run_threaded() returns the same
\* pair from both at any time.
C19_Interchangeable ==
    /\ State(steering, throttle, last_command_time) = twin
    /\ run_threaded_value(State(steering, throttle, last_command_time), now)
         = run_threaded_value(twin, now)
    /\ client_socket = 1 /\ openPeers = {1}

\* C19 witness: after a parsed command, both receivers got a payload with
\* a valid steering and an invalid throttle, and both hold its steering
\* with the earlier throttle and receipt time, within the timeout.
C19_Witness ==
    /\ data = Bytes("object", Num(1), BadStr)
    /\ twin = State(1, 1, last_command_time)
    /\ State(steering, throttle, last_command_time) = twin
    /\ last_command_time > 0
    /\ now > last_command_time
    /\ run_threaded_value(twin, now) = <<1, 1>>

\* C20. Neutral after shutdown: every run_threaded() made after shutdown()
\* has returned returns (0.0, 0.0).
C20_NeutralAfterShutdown ==
    (Returned /\ shut = "returned") => pollResult = <<0, 0>>

=============================================================================
